---- MODULE Spec2Model ----
(***************************************************************************)
(* Model of the desktop companion's log watcher: the IPC commands          *)
(* start_log_watcher / stop_log_watcher (lib.rs), the process-wide         *)
(* AppState (app_state.rs) and the pipeline task spawned by                *)
(* log_watcher::start_log_watcher (log_watcher.rs).                        *)
(*                                                                         *)
(* Time is in milliseconds.  File contents are run-length encoded UTF-8    *)
(* strings: a content is a sequence of runs <<w, n>>, n characters of w    *)
(* bytes each, adjacent runs having different widths.                      *)
(*                                                                         *)
(* A behaviour is explored under one of two budgets, fixed by Init: many   *)
(* IPC commands with few filesystem events and a frozen clock, or one      *)
(* command with many filesystem events and a running clock, or only the    *)
(* configuration commands, or only the directory-validation command.       *)
(***************************************************************************)
EXTENDS Integers, Sequences, FiniteSets, TLC

VARIABLES
    is_watching,      \* AppState.is_watching
    watcher_status,   \* AppState.watcher_status
    pc,               \* position of each IPC caller inside its command
    arg,              \* log_directory argument of the command in progress
    last_return,      \* value returned by the IPC command that returned last
    task_state,       \* per pipeline task: "unborn", "running" or "dead"
    task_pc,          \* per pipeline task: "select" or "recv" (inside rx.recv())
    rx,               \* per pipeline task: the mpsc channel of notify results
    last_content,     \* per pipeline task: Option<String>
    last_path,        \* per pipeline task: Option<String>
    batch_timer,      \* per pipeline task: deadline of the interval's next tick
    fs,               \* the watched directory: file name index -> Option<content>
    now,              \* wall clock, ms
    emitted,          \* what the AppHandle has emitted to the frontend, in order
    fs_events,        \* number of filesystem events so far
    cmds,             \* number of IPC commands invoked so far
    budget,           \* the bounds of this behaviour: [cmds, fs, time]
    reads,            \* history: per task, the successful qualifying reads since its last tick
    stopped_ok,       \* history: a stop returned true and no start was invoked since
    overlapped,       \* history: a command was invoked while another was in progress
    origin,           \* history: per emission, the number of the notification it stems from
    config,           \* AppState.config
    config_lock,      \* holder of the config mutex, or "free"
    cfg_arg,          \* per caller, the AppConfig passed to its save_app_config
    got,              \* Option: the AppConfig returned by the last get_app_config
    last_saved,       \* history: the AppConfig of the save_app_config that stored last
    validated         \* Option: argument and result of the last validate_log_directory

vars == <<is_watching, watcher_status, pc, arg, last_return, task_state, task_pc, rx,
          last_content, last_path, batch_timer, fs, now, emitted, fs_events,
          cmds, budget, reads, stopped_ok, overlapped, origin,
          config, config_lock, cfg_arg, got, last_saved, validated>>

----------------------------------------------------------------------------
(* Bounds *)

MaxTasks == 2
MaxFsEvents == 2
MaxCmds == 3
MaxTicks == 2

(* Program constants *)

TickMs == 100
WindowBytes == 10240

Callers == {"c1", "c2"}

\* the budgets a behaviour may run under
Budgets ==
    { [cmds |-> MaxCmds, fs |-> 1, time |-> 0, queries |-> FALSE, validations |-> FALSE],
      [cmds |-> 1, fs |-> MaxFsEvents, time |-> MaxTicks * TickMs, queries |-> FALSE,
       validations |-> FALSE],
      [cmds |-> 0, fs |-> 0, time |-> 0, queries |-> TRUE, validations |-> FALSE],
      [cmds |-> 0, fs |-> 0, time |-> 0, queries |-> FALSE, validations |-> TRUE] }

TaskIds == 1 .. MaxTasks
AdvanceSteps == {TickMs}
Dirs == {"Logs", "Missing"}
ExistingDirs == {"Logs"}

None == <<>>
Some(x) == <<x>>

\* AppConfig::default()
DefaultConfig ==
    [log_directory |-> None, supabase_url |-> None, supabase_key |-> None,
     auto_start |-> FALSE, notifications_enabled |-> TRUE, sync_enabled |-> TRUE]

ConfigA ==
    [log_directory |-> Some("dirA"), supabase_url |-> Some("urlA"), supabase_key |-> None,
     auto_start |-> TRUE, notifications_enabled |-> FALSE, sync_enabled |-> TRUE]

ConfigB ==
    [log_directory |-> None, supabase_url |-> Some("urlB"), supabase_key |-> Some("keyB"),
     auto_start |-> FALSE, notifications_enabled |-> TRUE, sync_enabled |-> FALSE]

\* the records the frontend saves
Configs == {DefaultConfig, ConfigA, ConfigB}

----------------------------------------------------------------------------
(* File names of the watched directory *)

NotificationsLog ==
    <<"n","o","t","i","f","i","c","a","t","i","o","n","s",".","l","o","g">>
ApplicationLog ==
    <<"a","p","p","l","i","c","a","t","i","o","n",".","l","o","g">>
NotificationsTxt ==
    <<"n","o","t","i","f","i","c","a","t","i","o","n","s",".","t","x","t">>

NotificationsOldLog ==
    <<"n","o","t","i","f","i","c","a","t","i","o","n","s",".","o","l","d",".","l","o","g">>

PathTable == <<NotificationsLog, ApplicationLog, NotificationsTxt, NotificationsOldLog>>
PathIds == 1 .. Len(PathTable)

Marker == <<"n","o","t","i","f","i","c","a","t","i","o","n","s">>
LogExt == <<"l","o","g">>

\* index of the last "." of a file name, 0 if there is none
LastDot(name) ==
    LET dots == {i \in 1 .. Len(name) : name[i] = "."}
    IN  IF dots = {} THEN 0 ELSE CHOOSE i \in dots : \A j \in dots : j <= i

\* Path::extension: the part after the last ".", None when there is no "."
\* or when the only "." is the first character
Extension(name) ==
    IF LastDot(name) <= 1 THEN None
    ELSE Some(SubSeq(name, LastDot(name) + 1, Len(name)))

\* str::contains
Contains(name, sub) ==
    \E i \in 1 .. (Len(name) - Len(sub) + 1) :
        SubSeq(name, i, i + Len(sub) - 1) = sub

\* variant: only the extension is tested
Qualifies_ExtOnly(name) ==
    /\ Extension(name) # None
    /\ Extension(name)[1] = LogExt

\* the filter of the Ok(event) branch, given the file name of paths.first()
Qualifies(name) ==
    /\ Extension(name) # None
    /\ Extension(name)[1] = LogExt
    /\ Contains(name, Marker)

----------------------------------------------------------------------------
(* File contents *)

\* one ASCII character, a full window of ASCII, and 3414 three-byte characters
Chunks == { <<1, 1>>, <<1, 10240>>, <<3, 3414>> }

\* the writes the environment performs: <<file, chunk appended>>
Writes == {<<1, k>> : k \in Chunks} \cup {<<p, <<1, 1>>>> : p \in PathIds}

RECURSIVE ByteLen(_)
ByteLen(c) ==
    IF c = <<>> THEN 0 ELSE c[1][1] * c[1][2] + ByteLen(Tail(c))

\* appending a chunk to a file (the game appends to its logs)
AppendChunk(c, k) ==
    IF c # <<>> /\ c[Len(c)][1] = k[1]
    THEN [c EXCEPT ![Len(c)] = <<k[1], c[Len(c)][2] + k[2]>>]
    ELSE Append(c, k)

\* usize::saturating_sub
SaturatingSub(a, b) == IF a >= b THEN a - b ELSE 0

\* str::is_char_boundary
RECURSIVE IsCharBoundary(_, _)
IsCharBoundary(c, idx) ==
    IF idx = 0 THEN TRUE
    ELSE IF c = <<>> THEN FALSE
    ELSE LET bytes == c[1][1] * c[1][2]
         IN  IF idx >= bytes THEN IsCharBoundary(Tail(c), idx - bytes)
             ELSE idx % c[1][1] = 0

\* &content[start..], for start on a character boundary
RECURSIVE SliceFrom(_, _)
SliceFrom(c, start) ==
    IF start = 0 \/ c = <<>> THEN c
    ELSE LET bytes == c[1][1] * c[1][2]
         IN  IF start >= bytes THEN SliceFrom(Tail(c), start - bytes)
             ELSE << <<c[1][1], c[1][2] - (start \div c[1][1])>> >> \o Tail(c)

WindowStart(c) == SaturatingSub(ByteLen(c), WindowBytes)

----------------------------------------------------------------------------
(* Initial state: AppState::new(), no command in progress, no task *)

Init ==
    /\ is_watching = FALSE
    /\ watcher_status = "Stopped"
    /\ pc = [c \in Callers |-> "idle"]
    /\ arg = [c \in Callers |-> "Logs"]
    /\ last_return = "none"
    /\ task_state = [t \in TaskIds |-> "unborn"]
    /\ task_pc = [t \in TaskIds |-> "select"]
    /\ rx = [t \in TaskIds |-> <<>>]
    /\ last_content = [t \in TaskIds |-> None]
    /\ last_path = [t \in TaskIds |-> None]
    /\ batch_timer = [t \in TaskIds |-> 0]
    /\ fs = [p \in PathIds |-> None]
    /\ now = 0
    /\ emitted = <<>>
    /\ fs_events = 0
    /\ cmds = 0
    /\ budget \in Budgets
    /\ reads = [t \in TaskIds |-> <<>>]
    /\ stopped_ok = FALSE
    /\ overlapped = FALSE
    /\ origin = <<>>
    /\ config = DefaultConfig
    /\ config_lock = "free"
    /\ cfg_arg = [c \in Callers |-> DefaultConfig]
    /\ got = None
    /\ last_saved = DefaultConfig
    /\ validated = None

Live == {t \in TaskIds : task_state[t] = "running"}
Unborn == {t \in TaskIds : task_state[t] = "unborn"}

StartPcs == {"start_spawn", "start_set_watching", "start_set_status"}

appVars == <<is_watching, watcher_status>>
callerVars == <<pc, arg, last_return>>
taskVars == <<task_state, task_pc, rx, last_content, last_path, batch_timer, reads>>
queryVars == <<config, config_lock, cfg_arg, got, last_saved, validated>>
staticVars == <<budget, queryVars>>
envVars == <<fs, now, fs_events, staticVars>>

\* an idle caller invokes a command; the callers are interchangeable, so c2
\* is only used while c1 is inside a command
Invoke(c) ==
    /\ pc[c] = "idle"
    /\ c = "c1" \/ pc["c1"] # "idle"
    /\ cmds < budget.cmds
    /\ cmds' = cmds + 1
    /\ overlapped' = (overlapped \/ \E o \in Callers : pc[o] # "idle")

----------------------------------------------------------------------------
(* IPC command start_log_watcher *)

\* variant: the watching flag is not consulted
StartCheck_NoCheck(c, d) ==
    /\ Invoke(c)
    /\ pc' = [pc EXCEPT ![c] = "start_spawn"]
    /\ arg' = [arg EXCEPT ![c] = d]
    /\ stopped_ok' = FALSE
    /\ UNCHANGED <<last_return, appVars, taskVars, envVars, emitted, origin>>

\* if state.is_watching() { return Err("Watcher is already running") }
StartCheck(c, d) ==
    /\ Invoke(c)
    /\ IF is_watching
       THEN /\ last_return' = "AlreadyRunning"
            /\ UNCHANGED <<pc, arg, stopped_ok>>
       ELSE /\ pc' = [pc EXCEPT ![c] = "start_spawn"]
            /\ arg' = [arg EXCEPT ![c] = d]
            /\ stopped_ok' = FALSE
            /\ UNCHANGED last_return
    /\ UNCHANGED <<appVars, taskVars, envVars, emitted, origin>>

\* variant: the directory is not checked before the task is spawned
StartSpawn_NoDirCheck(c) ==
    /\ pc[c] = "start_spawn"
    /\ arg' = [arg EXCEPT ![c] = "Logs"]
    /\ \/ /\ last_return' = "NotifyInitError"
          /\ pc' = [pc EXCEPT ![c] = "idle"]
          /\ UNCHANGED taskVars
       \/ /\ Unborn # {}
          /\ LET t == CHOOSE u \in Unborn : \A v \in Unborn : u <= v
             IN  /\ task_state' = [task_state EXCEPT ![t] = "running"]
                 /\ task_pc' = [task_pc EXCEPT ![t] = "select"]
                 /\ batch_timer' = [batch_timer EXCEPT ![t] = now]
          /\ pc' = [pc EXCEPT ![c] = "start_set_watching"]
          /\ UNCHANGED <<last_return, rx, last_content, last_path, reads>>
    /\ UNCHANGED <<appVars, envVars, cmds, emitted, origin, stopped_ok, overlapped>>

\* log_watcher::start_log_watcher(log_directory.clone(), app)?
StartSpawn(c) ==
    /\ pc[c] = "start_spawn"
    /\ arg' = [arg EXCEPT ![c] = "Logs"]
    /\ IF arg[c] \notin ExistingDirs
       THEN /\ last_return' = "DirectoryNotFound"
            /\ pc' = [pc EXCEPT ![c] = "idle"]
            /\ UNCHANGED taskVars
       ELSE \/ \* RecommendedWatcher::new or watcher.watch fails
               /\ last_return' = "NotifyInitError"
               /\ pc' = [pc EXCEPT ![c] = "idle"]
               /\ UNCHANGED taskVars
            \/ \* task::spawn: the task owns the watcher, the receiver and the timer
               /\ Unborn # {}
               /\ LET t == CHOOSE u \in Unborn : \A v \in Unborn : u <= v
                  IN  /\ task_state' = [task_state EXCEPT ![t] = "running"]
                      /\ task_pc' = [task_pc EXCEPT ![t] = "select"]
                      /\ batch_timer' = [batch_timer EXCEPT ![t] = now]
               /\ pc' = [pc EXCEPT ![c] = "start_set_watching"]
               /\ UNCHANGED <<last_return, rx, last_content, last_path, reads>>
    /\ UNCHANGED <<appVars, envVars, cmds, emitted, origin, stopped_ok, overlapped>>

\* state.set_watching(true)
StartSetWatching(c) ==
    /\ pc[c] = "start_set_watching"
    /\ is_watching' = TRUE
    /\ pc' = [pc EXCEPT ![c] = "start_set_status"]
    /\ UNCHANGED <<watcher_status, arg, last_return, taskVars, envVars, cmds, emitted, origin, stopped_ok, overlapped>>

\* state.set_watcher_status(WatcherStatus::Running); Ok(..)
StartSetStatus(c) ==
    /\ pc[c] = "start_set_status"
    /\ watcher_status' = "Running"
    /\ last_return' = "Started"
    /\ pc' = [pc EXCEPT ![c] = "idle"]
    /\ UNCHANGED <<is_watching, arg, taskVars, envVars, cmds, emitted, origin, stopped_ok, overlapped>>

----------------------------------------------------------------------------
(* IPC command stop_log_watcher *)

\* variant: the watching flag is not consulted
StopCheck_NoGuard(c) ==
    /\ Invoke(c)
    /\ pc' = [pc EXCEPT ![c] = "stop_set_watching"]
    /\ UNCHANGED <<last_return, appVars, arg, taskVars, envVars, emitted, origin, stopped_ok>>

\* if !state.is_watching() { return Ok(false) }; log_watcher::stop_log_watcher()?
\* log_watcher::stop_log_watcher returns Ok(true) and touches nothing
StopCheck(c) ==
    /\ Invoke(c)
    /\ IF ~is_watching
       THEN /\ last_return' = "StopFalse"
            /\ UNCHANGED pc
       ELSE /\ pc' = [pc EXCEPT ![c] = "stop_set_watching"]
            /\ UNCHANGED last_return
    /\ UNCHANGED <<appVars, arg, taskVars, envVars, emitted, origin, stopped_ok>>

\* state.set_watching(false)
StopSetWatching(c) ==
    /\ pc[c] = "stop_set_watching"
    /\ is_watching' = FALSE
    /\ pc' = [pc EXCEPT ![c] = "stop_set_status"]
    /\ UNCHANGED <<watcher_status, arg, last_return, taskVars, envVars, cmds, emitted, origin, stopped_ok, overlapped>>

\* state.set_watcher_status(WatcherStatus::Stopped); Ok(true)
StopSetStatus(c) ==
    /\ pc[c] = "stop_set_status"
    /\ watcher_status' = "Stopped"
    /\ last_return' = "StopTrue"
    /\ pc' = [pc EXCEPT ![c] = "idle"]
    /\ stopped_ok' = (\A o \in Callers : pc[o] \notin StartPcs)
    /\ UNCHANGED <<is_watching, arg, taskVars, envVars, cmds, emitted, origin, overlapped>>

----------------------------------------------------------------------------
(* The pipeline task spawned by log_watcher::start_log_watcher *)

LogEvent(t, path, content) ==
    [name |-> "log-event", task |-> t, file_path |-> path,
     content |-> content, timestamp |-> now]

LogError(t) ==
    [name |-> "log-error", task |-> t, timestamp |-> now]

\* variant: an occupied slot is not overwritten
BufferRead_KeepFirst(t, content, path) ==
    IF last_content[t] # None
    THEN UNCHANGED <<last_content, last_path>>
    ELSE /\ last_content' = [last_content EXCEPT ![t] = Some(content)]
         /\ last_path' = [last_path EXCEPT ![t] = Some(path)]

\* variant: the path of an occupied slot is kept
BufferRead_StalePath(t, content, path) ==
    /\ last_content' = [last_content EXCEPT ![t] = Some(content)]
    /\ last_path' = [last_path EXCEPT ![t] =
                        IF last_path[t] = None THEN Some(path) ELSE last_path[t]]

\* last_content = Some(recent_content.to_string()); last_path = Some(path...)
BufferRead(t, content, path) ==
    /\ last_content' = [last_content EXCEPT ![t] = Some(content)]
    /\ last_path' = [last_path EXCEPT ![t] = Some(path)]

\* variant: a tick on an empty slot emits an empty event
Flush_Synthetic(t) ==
    /\ IF last_content[t] # None /\ last_path[t] # None
       THEN /\ emitted' = Append(emitted, LogEvent(t, last_path[t][1], last_content[t][1]))
            /\ origin' = Append(origin, reads[t][Len(reads[t])].seq)
       ELSE /\ emitted' = Append(emitted, LogEvent(t, 0, <<>>))
            /\ origin' = Append(origin, 0)
    /\ last_content' = [last_content EXCEPT ![t] = None]
    /\ last_path' = [last_path EXCEPT ![t] = None]

\* if let (Some(content), Some(path)) = (last_content.take(), last_path.take())
\*     { app_handle.emit("log-event", log_event) }
Flush(t) ==
    /\ IF last_content[t] # None /\ last_path[t] # None
       THEN /\ emitted' = Append(emitted, LogEvent(t, last_path[t][1], last_content[t][1]))
            /\ origin' = Append(origin, reads[t][Len(reads[t])].seq)
       ELSE UNCHANGED <<emitted, origin>>
    /\ last_content' = [last_content EXCEPT ![t] = None]
    /\ last_path' = [last_path EXCEPT ![t] = None]

\* variant: a failed read counts as an empty file
ReadToString_OrEmpty(path) ==
    IF fs[path] = None THEN Some(<<>>) ELSE fs[path]

\* std::fs::read_to_string(path): Some(content), or None when the file cannot be read
ReadToString(path) == fs[path]

\* variant: the error is only logged, not emitted
EmitError_Silent(t) == UNCHANGED <<emitted, origin>>

\* let _ = app_handle.emit("log-error", format!("Watch error: {}", e))
EmitError(t) ==
    /\ emitted' = Append(emitted, LogError(t))
    /\ origin' = Append(origin, 0)

\* tokio::select! polls its branches in random order.  A poll of the first
\* branch runs the blocking rx.recv(): it is taken when that branch is polled
\* first, or when the timer is polled first and is not due.
PollRecv(t) ==
    /\ task_state[t] = "running"
    /\ task_pc[t] = "select"
    /\ task_pc' = [task_pc EXCEPT ![t] = "recv"]
    /\ UNCHANGED <<appVars, callerVars, task_state, rx, last_content, last_path,
                   batch_timer, reads, envVars, cmds, emitted, origin, stopped_ok, overlapped>>

\* the task panics: its locals (watcher, receiver, buffers) are dropped
Panic(t) ==
    /\ task_state' = [task_state EXCEPT ![t] = "dead"]
    /\ task_pc' = [task_pc EXCEPT ![t] = "select"]
    /\ rx' = [rx EXCEPT ![t] = <<>>]
    /\ last_content' = [last_content EXCEPT ![t] = None]
    /\ last_path' = [last_path EXCEPT ![t] = None]
    /\ reads' = [reads EXCEPT ![t] = <<>>]
    /\ UNCHANGED <<batch_timer, emitted, origin>>

\* Ok(res) = async { rx.recv() } => match res { ... }
RecvBranch(t) ==
    /\ task_state[t] = "running"
    /\ task_pc[t] = "recv"
    /\ rx[t] # <<>>
    /\ LET res == Head(rx[t])
           rest == Tail(rx[t])
           taken == /\ rx' = [rx EXCEPT ![t] = rest]
                    /\ task_pc' = [task_pc EXCEPT ![t] = "select"]
                    /\ UNCHANGED <<task_state, batch_timer>>
           skip == /\ taken
                   /\ UNCHANGED <<last_content, last_path, reads, emitted, origin>>
       IN  IF res.kind = "error"
           THEN /\ taken
                /\ EmitError(t)
                /\ UNCHANGED <<last_content, last_path, reads>>
           ELSE IF res.paths = <<>> THEN skip
           ELSE LET path == Head(res.paths) IN
                IF ~Qualifies(PathTable[path]) THEN skip
                ELSE IF ReadToString(path) = None THEN skip
                ELSE LET content == ReadToString(path)[1]
                         start == WindowStart(content)
                     IN  IF ~IsCharBoundary(content, start)
                         THEN Panic(t)
                         ELSE /\ taken
                              /\ BufferRead(t, SliceFrom(content, start), path)
                              /\ reads' = [reads EXCEPT ![t] = Append(@,
                                            [content |-> SliceFrom(content, start),
                                             path |-> path, at |-> now,
                                             seq |-> res.seq])]
                              /\ UNCHANGED <<emitted, origin>>
    /\ UNCHANGED <<appVars, callerVars, envVars, cmds, stopped_ok, overlapped>>

\* _ = batch_timer.tick() => { ... }; a completed tick schedules the next one
\* one period after the deadline it served (MissedTickBehavior::Burst)
TickBranch(t) ==
    /\ task_state[t] = "running"
    /\ task_pc[t] = "select"
    /\ now >= batch_timer[t]
    /\ batch_timer' = [batch_timer EXCEPT ![t] = @ + TickMs]
    /\ Flush(t)
    /\ reads' = [reads EXCEPT ![t] = <<>>]
    /\ UNCHANGED <<appVars, callerVars, task_state, task_pc, rx, envVars, cmds, stopped_ok, overlapped>>

----------------------------------------------------------------------------
(* Environment: the filesystem, the OS watcher callbacks and the clock *)

\* every live watcher's callback sends the result on its task's channel
Notify(res) ==
    rx' = [t \in TaskIds |-> IF t \in Live THEN Append(rx[t], res) ELSE rx[t]]

\* seq numbers the notifications in the order the OS produced them
FileEvent(paths) == [kind |-> "event", paths |-> paths, seq |-> fs_events + 1]

FsWrite(p, k) ==
    /\ <<p, k>> \in Writes
    /\ Live # {}
    /\ fs_events < budget.fs
    /\ fs_events' = fs_events + 1
    /\ fs' = [fs EXCEPT ![p] =
                Some(AppendChunk(IF fs[p] = None THEN <<>> ELSE fs[p][1], k))]
    /\ Notify(FileEvent(<<p>>))
    /\ UNCHANGED <<appVars, callerVars, task_state, task_pc, last_content,
                   last_path, batch_timer, reads, now, staticVars, cmds, emitted, origin, stopped_ok, overlapped>>

FsRemove(p) ==
    /\ Live # {}
    /\ fs_events < budget.fs
    /\ fs[p] # None
    /\ fs_events' = fs_events + 1
    /\ fs' = [fs EXCEPT ![p] = None]
    /\ Notify(FileEvent(<<p>>))
    /\ UNCHANGED <<appVars, callerVars, task_state, task_pc, last_content,
                   last_path, batch_timer, reads, now, staticVars, cmds, emitted, origin, stopped_ok, overlapped>>

\* an event that names no path (e.g. a rescan request)
FsRescan ==
    /\ fs_events < budget.fs
    /\ Live # {}
    /\ fs_events' = fs_events + 1
    /\ Notify(FileEvent(<<>>))
    /\ UNCHANGED <<appVars, callerVars, task_state, task_pc, last_content,
                   last_path, batch_timer, reads, fs, now, staticVars, cmds, emitted, origin, stopped_ok, overlapped>>

\* the watcher of task t reports an error
WatchError(t) ==
    /\ fs_events < budget.fs
    /\ t \in Live
    /\ fs_events' = fs_events + 1
    /\ rx' = [rx EXCEPT ![t] = Append(@, [kind |-> "error"])]
    /\ UNCHANGED <<appVars, callerVars, task_state, task_pc, last_content,
                   last_path, batch_timer, reads, fs, now, staticVars, cmds, emitted, origin, stopped_ok, overlapped>>

\* time passes; a task waiting in select! with a due timer is served first
Advance(d) ==
    /\ now + d <= budget.time
    /\ \A t \in Live : task_pc[t] = "select" => now < batch_timer[t]
    /\ now' = now + d
    /\ UNCHANGED <<appVars, callerVars, taskVars, fs, fs_events, staticVars, cmds, emitted, origin, stopped_ok, overlapped>>

----------------------------------------------------------------------------
(* IPC commands get_app_config and save_app_config *)

watchVars ==
    <<appVars, arg, last_return, taskVars, fs, now, fs_events, budget, cmds,
      emitted, origin, stopped_ok, overlapped>>

\* variant: absent optional fields of the new record keep their old value
Assign_Merge(old, new) ==
    [new EXCEPT
        !.log_directory = IF new.log_directory = None THEN old.log_directory ELSE @,
        !.supabase_url = IF new.supabase_url = None THEN old.supabase_url ELSE @,
        !.supabase_key = IF new.supabase_key = None THEN old.supabase_key ELSE @]

\* *guard = config
Assign(old, new) == new

\* the frontend invokes save_app_config(cfg)
SaveAppConfig(c, cfg) ==
    /\ budget.queries
    /\ pc[c] = "idle"
    /\ c = "c1" \/ pc["c1"] # "idle"
    /\ pc' = [pc EXCEPT ![c] = "set_config_lock"]
    /\ cfg_arg' = [cfg_arg EXCEPT ![c] = cfg]
    /\ UNCHANGED <<watchVars, config, config_lock, got, last_saved, validated>>

\* set_config: self.config.lock() returns once the mutex is free
SetConfigLock(c) ==
    /\ pc[c] = "set_config_lock"
    /\ config_lock = "free"
    /\ config_lock' = c
    /\ pc' = [pc EXCEPT ![c] = "set_config_store"]
    /\ UNCHANGED <<watchVars, config, cfg_arg, got, last_saved, validated>>

\* set_config: the assignment through the guard, the guard's drop, Ok(true)
SetConfigStore(c) ==
    /\ pc[c] = "set_config_store"
    /\ config_lock = c
    /\ config' = Assign(config, cfg_arg[c])
    /\ last_saved' = cfg_arg[c]
    /\ config_lock' = "free"
    /\ cfg_arg' = [cfg_arg EXCEPT ![c] = DefaultConfig]
    /\ pc' = [pc EXCEPT ![c] = "idle"]
    /\ UNCHANGED <<watchVars, got, validated>>

\* the frontend invokes get_app_config
GetAppConfig(c) ==
    /\ budget.queries
    /\ pc[c] = "idle"
    /\ c = "c1" \/ pc["c1"] # "idle"
    /\ pc' = [pc EXCEPT ![c] = "get_config_lock"]
    /\ UNCHANGED <<watchVars, queryVars>>

\* get_config: self.config.lock() returns once the mutex is free
GetConfigLock(c) ==
    /\ pc[c] = "get_config_lock"
    /\ config_lock = "free"
    /\ config_lock' = c
    /\ pc' = [pc EXCEPT ![c] = "get_config_clone"]
    /\ UNCHANGED <<watchVars, config, cfg_arg, got, last_saved, validated>>

\* get_config: .clone(), the guard's drop, Ok(clone)
GetConfigClone(c) ==
    /\ pc[c] = "get_config_clone"
    /\ config_lock = c
    /\ got' = Some(config)
    /\ config_lock' = "free"
    /\ pc' = [pc EXCEPT ![c] = "idle"]
    /\ UNCHANGED <<watchVars, config, cfg_arg, last_saved, validated>>

----------------------------------------------------------------------------
(* IPC command validate_log_directory *)

ReadmeTxt == <<"r", "e", "a", "d", "m", "e", ".", "t", "x", "t">>
EftLog == <<"e", "f", "t", ".", "l", "o", "g">>
LogSubdir == <<"l", "o", "g", "_", "1">>
Catalog == <<"c", "a", "t", "a", "l", "o", "g">>

\* the names an entry of the directory may have
EntryNames == {ReadmeTxt, EftLog, LogSubdir, Catalog}

\* an entry is absent, is yielded by the listing ("ok"), or is in the
\* directory but reading it fails ("err")
EntryStates == {"absent", "ok", "err"}

NoEntries == [e \in EntryNames |-> "absent"]

\* what the path names: nothing, a file, or a directory whose listing
\* read_dir can open (readable) or not
Nodes ==
    { [kind |-> "missing", readable |-> FALSE, entries |-> NoEntries],
      [kind |-> "file", readable |-> TRUE, entries |-> NoEntries] }
    \cup { [kind |-> "dir", readable |-> r, entries |-> es] :
                r \in BOOLEAN, es \in [EntryNames -> EntryStates] }

LogPrefix == <<"l", "o", "g", "_">>
DotLog == <<".", "l", "o", "g">>

StartsWith(s, prefix) ==
    /\ Len(prefix) <= Len(s)
    /\ SubSeq(s, 1, Len(prefix)) = prefix

EndsWith(s, suffix) ==
    /\ Len(suffix) <= Len(s)
    /\ SubSeq(s, Len(s) - Len(suffix) + 1, Len(s)) = suffix

Ok(v) == <<"Ok", v>>

\* variant: an entry must have both the prefix and the suffix
validate_log_directory_Both(n) ==
    IF n.kind = "missing" THEN Ok(FALSE)
    ELSE IF n.kind # "dir" THEN Ok(FALSE)
    ELSE IF /\ n.readable
            /\ \E e \in EntryNames :
                    /\ n.entries[e] = "ok"
                    /\ StartsWith(e, LogPrefix) /\ EndsWith(e, DotLog)
         THEN Ok(TRUE)
    ELSE Ok(FALSE)

\* tarkov_paths::validate_log_directory; the loop returns at the first
\* yielded entry whose name matches, so the order of the listing is immaterial
validate_log_directory(n) ==
    IF n.kind = "missing" THEN Ok(FALSE)
    ELSE IF n.kind # "dir" THEN Ok(FALSE)
    ELSE IF /\ n.readable
            /\ \E e \in EntryNames :
                    /\ n.entries[e] = "ok"
                    /\ StartsWith(e, LogPrefix) \/ EndsWith(e, DotLog)
         THEN Ok(TRUE)
    ELSE Ok(FALSE)

\* the frontend invokes validate_log_directory on a path naming node n
ValidateLogDirectory(n) ==
    /\ budget.validations
    /\ validated' = Some([node |-> n, result |-> validate_log_directory(n)])
    /\ UNCHANGED <<watchVars, pc, config, config_lock, cfg_arg, got, last_saved>>

----------------------------------------------------------------------------

Next ==
    \/ \E c \in Callers, d \in Dirs : StartCheck(c, d)
    \/ \E c \in Callers : StartSpawn(c)
    \/ \E c \in Callers : StartSetWatching(c)
    \/ \E c \in Callers : StartSetStatus(c)
    \/ \E c \in Callers : StopCheck(c)
    \/ \E c \in Callers : StopSetWatching(c)
    \/ \E c \in Callers : StopSetStatus(c)
    \/ \E t \in TaskIds : PollRecv(t)
    \/ \E t \in TaskIds : RecvBranch(t)
    \/ \E t \in TaskIds : TickBranch(t)
    \/ \E p \in PathIds, k \in Chunks : FsWrite(p, k)
    \/ \E p \in PathIds : FsRemove(p)
    \/ FsRescan
    \/ \E t \in TaskIds : WatchError(t)
    \/ \E d \in AdvanceSteps : Advance(d)
    \/ \E c \in Callers, cfg \in Configs : SaveAppConfig(c, cfg)
    \/ \E c \in Callers : SetConfigLock(c)
    \/ \E c \in Callers : SetConfigStore(c)
    \/ \E c \in Callers : GetAppConfig(c)
    \/ \E c \in Callers : GetConfigLock(c)
    \/ \E c \in Callers : GetConfigClone(c)
    \/ \E n \in Nodes : ValidateLogDirectory(n)

Spec == Init /\ [][Next]_vars

----------------------------------------------------------------------------
(* Properties *)

IsTick(t) == task_state[t] = "running" /\ batch_timer'[t] = batch_timer[t] + TickMs

\* the step appends a "log-event" of task t to the emissions
EmitsLogEvent(t) ==
    /\ Len(emitted') > Len(emitted)
    /\ emitted'[Len(emitted')].name = "log-event"
    /\ emitted'[Len(emitted')].task = t

LogEventsOf(t) ==
    {i \in 1 .. Len(emitted) : emitted[i].name = "log-event" /\ emitted[i].task = t}

\* C1: a tick of a pipeline task that follows a non-empty sequence of
\* qualifying reads emits exactly one "log-event", whose content and path are
\* those of the last read of the sequence; nothing else emits a "log-event".
C1_DebounceCoalescing ==
    [][\A t \in TaskIds :
          /\ (IsTick(t) /\ reads[t] # <<>>) =>
                /\ emitted' = Append(emitted,
                       LogEvent(t, reads[t][Len(reads[t])].path,
                                   reads[t][Len(reads[t])].content))
          /\ EmitsLogEvent(t) => IsTick(t)]_vars

\* two different reads of notifications.log in a row, flushed by one tick
C1_Witness ==
    \E t \in Live :
        /\ fs_events = 2
        /\ fs[1] = Some(<< <<1, 10241>> >>)
        /\ rx[t] = <<>>
        /\ last_content[t] = None
        /\ reads[t] = <<>>
        /\ Len(emitted) = 1
        /\ emitted[1] = [name |-> "log-event", task |-> t, file_path |-> 1,
                         content |-> << <<1, 10240>> >>, timestamp |-> now]

\* C2: a step taken when no qualifying read has arrived since the task's last
\* tick (in particular a tick that finds the slot empty) emits no "log-event";
\* a task that has read nothing has emitted nothing.
C2_NoSyntheticEvents ==
    [][\A t \in TaskIds : reads[t] = <<>> => ~EmitsLogEvent(t)]_vars

\* a tick has been served on an empty slot and nothing was emitted
C2_Witness ==
    \E t \in Live :
        /\ batch_timer[t] > now
        /\ fs_events = 0
        /\ last_content[t] = None
        /\ emitted = <<>>

\* C3: WatcherStatus == Running, a live pipeline task and the watching flag
\* agree in every state.
C3_StatusAgreement ==
    /\ (watcher_status = "Running") <=> (Live # {})
    /\ (Live # {}) <=> is_watching

\* C4: after any sequence of start and stop calls, none invoked before the
\* previous one returned, at most one pipeline task is alive.
C4_AtMostOneSession == ~overlapped => Cardinality(Live) <= 1

\* C5: once stop has returned true, nothing is emitted until a later start.
C5_StopHaltsPipeline == [][stopped_ok => emitted' = emitted]_vars

\* C6: a start that finds the watching flag set returns AlreadyRunning and
\* changes neither the status, nor the flag, nor the set of pipeline tasks.
C6_StartWhileRunning ==
    [][\A c \in Callers, d \in Dirs :
          (is_watching /\ StartCheck(c, d)) =>
              /\ last_return' = "AlreadyRunning"
              /\ pc'[c] = "idle"
              /\ UNCHANGED <<is_watching, watcher_status, task_state>>]_vars

\* a second start has been refused while the first session runs
C6_Witness ==
    /\ last_return = "AlreadyRunning"
    /\ cmds = 2
    /\ is_watching
    /\ watcher_status = "Running"
    /\ Cardinality(Live) = 1
    /\ Unborn = TaskIds \ Live

\* C7: a stop that finds the watching flag clear returns false and changes
\* neither the status nor the flag.
C7_StopWhenNotWatching ==
    [][\A c \in Callers :
          (~is_watching /\ StopCheck(c)) =>
              /\ last_return' = "StopFalse"
              /\ pc'[c] = "idle"
              /\ UNCHANGED <<is_watching, watcher_status>>]_vars

\* a stop has returned false after the watcher had been started and stopped
C7_Witness ==
    /\ last_return = "StopFalse"
    /\ cmds = 3
    /\ Unborn # TaskIds
    /\ ~is_watching
    /\ watcher_status = "Stopped"
    /\ \A c \in Callers : pc[c] = "idle"

\* C8: the step in which a pipeline task dies sets the status to Error and
\* clears the watching flag.
C8_FailurePropagation ==
    [][\A t \in TaskIds :
          (task_state[t] = "running" /\ task_state'[t] = "dead") =>
              /\ watcher_status' = "Error"
              /\ is_watching' = FALSE]_vars

\* C9: a buffered read never stays unflushed for longer than one tick interval.
C9_BoundedLatency ==
    \A t \in Live : reads[t] # <<>> => now <= reads[t][1].at + TickMs

\* C10: two "log-event"s of one pipeline are at least one tick interval apart.
C10_BoundedRate ==
    \A t \in TaskIds : \A i, j \in LogEventsOf(t) :
        i < j => emitted[j].timestamp - emitted[i].timestamp >= TickMs

\* C11: across start/stop calls made one after the other, the "log-event"s
\* stem from strictly increasing notifications: no notification is delivered
\* twice and the events keep the order in which the reads arrived.
C11_NoDuplicationInOrder ==
    ~overlapped =>
        \A i, j \in 1 .. Len(emitted) :
            (i < j /\ emitted[i].name = "log-event" /\ emitted[j].name = "log-event")
                => origin[i] < origin[j]

\* C12: a start whose directory does not exist fails; a start that fails
\* returns an error, spawns no task and leaves the status and the flag alone.
C12_FailedStart ==
    [][\A c \in Callers :
          StartSpawn(c) =>
              /\ arg[c] \notin ExistingDirs => pc'[c] = "idle"
              /\ pc'[c] = "idle" =>
                    /\ last_return' \in {"DirectoryNotFound", "NotifyInitError"}
                    /\ arg[c] \notin ExistingDirs => last_return' = "DirectoryNotFound"
                    /\ UNCHANGED <<task_state, is_watching, watcher_status>>]_vars

\* a start on a missing directory has failed from the stopped state
C12_Witness ==
    /\ last_return = "DirectoryNotFound"
    /\ cmds = 1
    /\ Unborn = TaskIds
    /\ ~is_watching
    /\ watcher_status = "Stopped"
    /\ \A c \in Callers : pc[c] = "idle"

Min(a, b) == IF a <= b THEN a ELSE b

\* the step is task t's handling of the result it received: only that
\* step takes the task out of its rx.recv()
Receives(t) ==
    /\ task_pc[t] = "recv"
    /\ task_pc'[t] = "select"
    /\ RecvBranch(t)

\* the task handles a notification for notifications.log while the file is readable
ReadsReadableLog(t) ==
    /\ Receives(t)
    /\ Head(rx[t]).kind = "event"
    /\ Head(rx[t]).paths = <<1>>
    /\ fs[1] # None

\* C13: reading a readable file of n bytes succeeds and buffers exactly its
\* last min(n, 10240) bytes, whatever the text.
C13_TrailingWindow ==
    [][\A t \in TaskIds :
          ReadsReadableLog(t) =>
              /\ task_state'[t] = "running"
              /\ last_content'[t] # None
              /\ ByteLen(last_content'[t][1]) = Min(ByteLen(fs[1][1]), WindowBytes)]_vars

\* the task handles a notification that names file p
HandlesEventFor(t, p) ==
    /\ Receives(t)
    /\ Head(rx[t]).kind = "event"
    /\ Head(rx[t]).paths = <<p>>

C15_ReadErrorSkipped ==
    [][\A t \in TaskIds :
          (HandlesEventFor(t, 1) /\ fs[1] = None) =>
              /\ UNCHANGED <<last_content, last_path, emitted>>
              /\ UNCHANGED <<is_watching, watcher_status>>
              /\ task_state'[t] = "running"
              /\ task_pc'[t] = "select"
              /\ rx'[t] = Tail(rx[t])]_vars

\* notifications.log was written, read, then removed; the notification of
\* the removal was handled and the slot still holds the earlier read
C15_Witness ==
    \E t \in Live :
        /\ fs_events = 2
        /\ fs[1] = None
        /\ rx[t] = <<>>
        /\ task_pc[t] = "select"
        /\ last_content[t] # None
        /\ last_path[t] = Some(1)
        /\ emitted = <<>>

\* C16: a watch error taken from the channel produces exactly one
\* "log-error" and nothing else: the slot, the status and the flag are
\* unchanged, and the task goes back to its select loop.
C16_WatchErrorEmitted ==
    [][\A t \in TaskIds :
          (Receives(t) /\ Head(rx[t]).kind = "error") =>
              /\ Len(emitted') = Len(emitted) + 1
              /\ SubSeq(emitted', 1, Len(emitted)) = emitted
              /\ emitted'[Len(emitted')].name = "log-error"
              /\ emitted'[Len(emitted')].task = t
              /\ UNCHANGED <<last_content, last_path, is_watching, watcher_status>>
              /\ task_state'[t] = "running"
              /\ task_pc'[t] = "select"]_vars

\* a read was buffered, then a watch error was emitted; the slot is still full
C16_Witness ==
    \E t \in Live :
        /\ emitted # <<>>
        /\ emitted[Len(emitted)].name = "log-error"
        /\ emitted[Len(emitted)].task = t
        /\ \A i \in 1 .. Len(emitted) : emitted[i].name = "log-error"
        /\ last_content[t] # None
        /\ last_path[t] = Some(1)
        /\ reads[t] # <<>>
        /\ reads[t][1].seq = 1
        /\ rx[t] = <<>>
        /\ fs_events = 2

\* C17: get_app_config returns exactly the record of the save_app_config
\* that stored last (the default record if none has), under every
\* interleaving of two callers' save_app_config and get_app_config; so the
\* record returned is one of the saved records, never a mix of two.
C17_WholeValueReplace ==
    [][\A c \in Callers :
            GetConfigClone(c) =>
                /\ got' = Some(last_saved)
                /\ got'[1] \in Configs]_vars

\* a reader that waited while two different records were saved one after
\* the other has returned the second
C17_Witness ==
    /\ got = Some(ConfigB)
    /\ last_saved = ConfigB
    /\ config_lock = "free"
    /\ \E c \in Callers : pc[c] = "set_config_lock" /\ cfg_arg[c] = ConfigA


\* the entry names with the prefix "log_" or the suffix ".log"
LogNames == {EftLog, LogSubdir}

OnlyEntry(e) == [x \in EntryNames |-> IF x = e THEN "ok" ELSE "absent"]

\* C18 as stated: validate_log_directory returns Ok(true) iff the path
\* exists, is a directory, and the directory contains an entry whose name
\* starts with "log_" or ends with ".log"; otherwise Ok(false).
C18_ValidateIffContains ==
    validated # None =>
        validated[1].result =
            Ok(/\ validated[1].node.kind = "dir"
               /\ \E e \in LogNames : validated[1].node.entries[e] # "absent")

\* C18, amended: validate_log_directory returns Ok(true) iff the path
\* exists, is a directory whose listing can be opened, and the listing
\* yields an entry whose name starts with "log_" or ends with ".log";
\* otherwise it returns Ok(false), never an error.  A readable directory
\* holding only readme.txt gives false, one holding eft.log gives true.
C18_ValidateIffListed ==
    validated # None =>
        /\ validated[1].result =
              Ok(/\ validated[1].node.kind = "dir"
                 /\ validated[1].node.readable
                 /\ \E e \in LogNames : validated[1].node.entries[e] = "ok")
        /\ (validated[1].node.kind = "dir" /\ validated[1].node.readable) =>
              /\ validated[1].node.entries = OnlyEntry(ReadmeTxt)
                    => validated[1].result = Ok(FALSE)
              /\ validated[1].node.entries[EftLog] = "ok"
                    => validated[1].result = Ok(TRUE)

\* a directory that holds eft.log but whose listing cannot be opened has
\* been validated, with result Ok(false)
C18_Witness ==
    /\ validated # None
    /\ validated[1].node.kind = "dir"
    /\ ~validated[1].node.readable
    /\ validated[1].node.entries = OnlyEntry(EftLog)
    /\ validated[1].result = Ok(FALSE)


\* the callers whose start_log_watcher has spawned a pipeline and is about
\* to return Ok(true)
Succeeding == {c \in Callers : pc[c] \in {"start_set_watching", "start_set_status"}}

\* C19: of two start_log_watcher commands running concurrently, at most one
\* gets past the check of the watching flag, creates a pipeline and returns
\* success.
C19_ConcurrentStarts == Cardinality(Succeeding) <= 1


\* content and path are those of the last read of rs
PairOfLastRead(rs, content, path) ==
    /\ rs # <<>>
    /\ rs[Len(rs)].content = content
    /\ rs[Len(rs)].path = path

\* C20: after every step of a pipeline task the buffered content and the
\* buffered path are both present or both absent; a filled slot holds the
\* content window and the path of one and the same read, and every
\* "log-event" emitted pairs the content window with the path of the read
\* that produced it.
C20_SlotPairing ==
    [][\A t \in TaskIds :
            /\ (last_content'[t] = None) <=> (last_path'[t] = None)
            /\ last_content'[t] # None =>
                    PairOfLastRead(reads'[t], last_content'[t][1], last_path'[t][1])
            /\ EmitsLogEvent(t) =>
                    PairOfLastRead(reads[t], emitted'[Len(emitted')].content,
                                   emitted'[Len(emitted')].file_path)]_vars

\* two files were read within one tick period, the first file first, and
\* the single event emitted carries the path and content of the second
C20_Witness ==
    /\ Len(emitted) = 1
    /\ emitted[1].name = "log-event"
    /\ origin = <<2>>
    /\ emitted[1].file_path = 4
    /\ fs[1] # None
    /\ fs[4] # None
    /\ emitted[1].content = fs[4][1]

====
